---- MODULE Spec2Model ----
(***************************************************************************)
(* A model of the sentiment analyzer (src/sentiment_analyzer.py) and of    *)
(* the console application that drives it (src/main.py, src/utils.py).     *)
(*                                                                         *)
(* Numbers.  Python floats are modelled as exact decimal fixed-point       *)
(* integers.  A raw polarity or subjectivity is an integer number of       *)
(* "units"; one unit is 1/(1000*Sub), so Sub units make 0.001, the         *)
(* precision round(x, 3) keeps.  A stored (rounded) value is an integer    *)
(* number of thousandths ("milli").  Percentages are integers in tenths    *)
(* of a percent, the precision round(x, 1) keeps.                          *)
(*                                                                         *)
(* Texts.  A text is a sequence of tokens: the whitespace token " " or a   *)
(* word.  "word in text_lower" is membership of the keyword among the      *)
(* tokens of the lower-cased text.                                         *)
(***************************************************************************)
EXTENDS Integers, Sequences, FiniteSets

VARIABLES
    pc,          \* position of the running program / call
    text,        \* argument of the current analyze_text call
    score,       \* what the base scorer (TextBlob) answers for that text
    ret,         \* what the call returned or raised
    file,        \* analyze_file: the file at file_path
    line_num,    \* analyze_file: the lines read so far (enumerate(file, 1))
    results,     \* analyze_file: the local list results
    printed,     \* analyze_file: line numbers of the errors printed
    running,     \* SentimentApp.running
    choice,      \* the menu choice being handled (0: none)
    caught,      \* the exception in run's "except Exception as e"
    endedBy,     \* how the session ended
    now,         \* the clock, in seconds
    logs,        \* the log directory: per file name (a timestamp) its content
    shown        \* analyze_file (main): detailed results shown so far

scoreVars == <<text, score>>
batchVars == <<file, line_num, results, printed>>
appVars == <<running, choice, caught, endedBy, now, logs, shown>>
vars == <<pc, ret, scoreVars, batchVars, appVars>>

(***************************************************************************)
(* Bounds of the model.                                                    *)
(***************************************************************************)
\* sub-steps per 0.001: the resolution at which raw scores are enumerated
Sub == 4
\* longest run of whitespace put before / after a text
MaxPad == 1
\* most lines of a file
MaxLines == 3
\* most results handed to get_analysis_summary
MaxResults == 16
\* last second of the clock
MaxTime == 1

(***************************************************************************)
(* Program constants.                                                      *)
(***************************************************************************)
\* round(adjusted_polarity, 3), round(subjectivity, 3)
Decimals == 3
\* abs(original_polarity) < 0.1, in milli
NoSignalBand == 100
\* 0.3 + (positive_count * 0.1) and -0.3 - (negative_count * 0.1), in milli
KeywordBase == 300
KeywordStep == 100
\* original_polarity +/- (count * 0.2), in milli
AmplifyStep == 200
\* polarity > 0.05 and polarity < -0.05, in milli
PositiveThreshold == 50
NegativeThreshold == -50
\* i % 3 == 0: the detailed results are shown three at a time
PauseEvery == 3

RECURSIVE Pow10(_)
Pow10(n) == IF n = 0 THEN 1 ELSE 10 * Pow10(n - 1)

\* thousandths per 1.0
Milli == Pow10(Decimals)
\* units per 1.0
One == Milli * Sub
\* a value given in milli, in units
U(m) == m * Sub

Abs(x) == IF x < 0 THEN -x ELSE x
Min(a, b) == IF a <= b THEN a ELSE b
Max(a, b) == IF a >= b THEN a ELSE b

\* Python's round(): x/d to the nearest integer, a tie going to the even one
Round(x, d) ==
    LET q == x \div d
        r == x % d
    IN  IF 2 * r < d THEN q
        ELSE IF 2 * r > d THEN q + 1
        ELSE IF q % 2 = 0 THEN q ELSE q + 1

(***************************************************************************)
(* Keyword configuration (accents dropped).                                *)
(***************************************************************************)
positive_keywords ==
    << "excelente", "fantastico", "increible", "maravilloso", "perfecto",
       "genial", "bueno", "buena", "amor", "feliz", "alegre", "contento",
       "satisfecho", "encanta", "gusta", "hermoso", "bella", "exito" >>

negative_keywords ==
    << "terrible", "horrible", "malo", "mala", "pesimo", "odio", "detesto",
       "triste", "enojado", "molesto", "frustrado", "decepcionado", "error",
       "problema", "falla", "defecto", "disgusto", "desagradable" >>

(***************************************************************************)
(* str operations on token sequences.                                      *)
(***************************************************************************)
WS == " "

\* str.lower() of one token: the capitalised words of the model's texts
LowerToken(t) ==
    CASE t = "El" -> "el"
      [] t = "Excelente" -> "excelente"
      [] t = "Terrible" -> "terrible"
      [] OTHER -> t

Lower(s) == [i \in 1..Len(s) |-> LowerToken(s[i])]

RECURSIVE LStrip(_)
LStrip(s) == IF s # <<>> /\ Head(s) = WS THEN LStrip(Tail(s)) ELSE s

RECURSIVE RStrip(_)
RStrip(s) ==
    IF s # <<>> /\ s[Len(s)] = WS THEN RStrip(SubSeq(s, 1, Len(s) - 1)) ELSE s

\* str.strip()
Strip(s) == RStrip(LStrip(s))

\* word in text_lower
Contains(s, w) == \E i \in 1..Len(s) : s[i] = w

\* as KeywordCount, every occurrence of a keyword in the text counted
KeywordOccurrences(keywords, text_lower) ==
    Cardinality({i \in 1..Len(text_lower) :
                    \E k \in 1..Len(keywords) : text_lower[i] = keywords[k]})

\* sum(1 for word in keywords if word in text_lower)
KeywordCount(keywords, text_lower) ==
    Cardinality({k \in 1..Len(keywords) : Contains(text_lower, keywords[k])})

(***************************************************************************)
(* SentimentAnalyzer.                                                      *)
(***************************************************************************)
\* as AdjustPolarityWithKeywords, the keyword majority deciding whatever the
\* original polarity is
AdjustPolarityNoBand(text_lower, original_polarity) ==
    LET positive_count == KeywordCount(positive_keywords, text_lower)
        negative_count == KeywordCount(negative_keywords, text_lower)
    IN  IF positive_count > negative_count
        THEN U(KeywordBase) + positive_count * U(KeywordStep)
        ELSE IF negative_count > positive_count
        THEN -U(KeywordBase) - negative_count * U(KeywordStep)
        ELSE original_polarity

AdjustPolarityWithKeywords(text_lower, original_polarity) ==
    LET positive_count == KeywordCount(positive_keywords, text_lower)
        negative_count == KeywordCount(negative_keywords, text_lower)
    IN  IF Abs(original_polarity) < U(NoSignalBand)
           /\ positive_count > negative_count
        THEN U(KeywordBase) + positive_count * U(KeywordStep)
        ELSE IF Abs(original_polarity) < U(NoSignalBand)
                /\ negative_count > positive_count
        THEN -U(KeywordBase) - negative_count * U(KeywordStep)
        ELSE IF positive_count > 0 /\ original_polarity > 0
        THEN Min(One, original_polarity + positive_count * U(AmplifyStep))
        ELSE IF negative_count > 0 /\ original_polarity < 0
        THEN Max(-One, original_polarity - negative_count * U(AmplifyStep))
        ELSE original_polarity

\* as ClassifySentiment, the thresholds themselves taken as POSITIVO / NEGATIVO
ClassifySentimentInclusive(polarity) ==
    IF polarity >= U(PositiveThreshold) THEN "POSITIVO"
    ELSE IF polarity <= U(NegativeThreshold) THEN "NEGATIVO"
    ELSE "NEUTRAL"

ClassifySentiment(polarity) ==
    IF polarity > U(PositiveThreshold) THEN "POSITIVO"
    ELSE IF polarity < U(NegativeThreshold) THEN "NEGATIVO"
    ELSE "NEUTRAL"

\* as IsEmptyInput, without the text.strip() test
IsEmptyInputNoStrip(t) == t = <<>>

\* the guard of analyze_text: not text or not text.strip()
IsEmptyInput(t) == t = <<>> \/ Strip(t) = <<>>

\* analyze_text on text t when the base scorer answers s for it.  The
\* timestamp of the result is left out.
AnalyzeText(t, s) ==
    IF IsEmptyInput(t)
    THEN [kind |-> "ValueError", scorerCalled |-> FALSE]
    ELSE IF ~s.ok
    THEN [kind |-> "ScorerError", scorerCalled |-> TRUE]
    ELSE LET adjusted_polarity == AdjustPolarityWithKeywords(Lower(t), s.polarity)
             sentiment_label == ClassifySentiment(adjusted_polarity)
         IN  [kind |-> "result",
              scorerCalled |-> TRUE,
              adjusted |-> adjusted_polarity,
              result |-> [text |-> Strip(t),
                          polarity |-> Round(adjusted_polarity, Sub),
                          subjectivity |-> Round(s.subjectivity, Sub),
                          sentiment |-> sentiment_label]]

(***************************************************************************)
(* Inputs.                                                                 *)
(***************************************************************************)
Pad(k) == [i \in 1..k |-> WS]

\* the first p positive keywords, the first one capitalised
PosWords(p) == [i \in 1..p |-> IF i = 1 THEN "Excelente" ELSE positive_keywords[i]]
\* the first n negative keywords, the first one capitalised
NegWords(n) == [i \in 1..n |-> IF i = 1 THEN "Terrible" ELSE negative_keywords[i]]

\* a non-blank text: "El", p positive and n negative keywords, padded
Phrase(lead, p, n, trail) ==
    Pad(lead) \o <<"El", WS>> \o PosWords(p) \o NegWords(n) \o Pad(trail)

BlankTexts == {Pad(k) : k \in 0..(2 * MaxPad)}

\* texts in which every keyword occurs twice
RepeatedTexts ==
    {Phrase(0, c[1], c[2], 0) \o <<WS>> \o Lower(PosWords(c[1]) \o NegWords(c[2])) :
        c \in {<<1, 0>>, <<0, 1>>, <<1, 1>>, <<2, 1>>, <<1, 2>>}}

\* every keyword count unpadded; every padding with at most one keyword of
\* each kind; keywords said twice
Texts ==
    BlankTexts \cup RepeatedTexts \cup
    {Phrase(0, p, n, 0) :
        p \in 0..Len(positive_keywords), n \in 0..Len(negative_keywords)}
    \cup
    {Phrase(lead, p, n, trail) :
        lead \in 0..MaxPad, trail \in 0..MaxPad, p \in 0..1, n \in 0..1}

\* raw polarities: the multiples of 0.1, and every value within 0.001 of
\* 0, +/-0.05 and +/-0.1
Polarities ==
    {p \in (-One)..One :
        \/ p % U(NoSignalBand) = 0
        \/ \E t \in {0, PositiveThreshold, NegativeThreshold,
                     NoSignalBand, -NoSignalBand} : Abs(p - U(t)) <= Sub}

\* raw subjectivities
Subjectivities == {0, U(333) + 1, One}

\* the base scorer's answers: a (polarity, subjectivity) pair, or an exception.
\* Every polarity comes with one subjectivity, every subjectivity with
\* polarity 0.
Scores ==
    {[ok |-> TRUE, polarity |-> p, subjectivity |-> U(333) + 1] : p \in Polarities}
    \cup {[ok |-> TRUE, polarity |-> 0, subjectivity |-> q] : q \in Subjectivities}
    \cup {[ok |-> FALSE, polarity |-> 0, subjectivity |-> 0]}

NoScore == [ok |-> FALSE, polarity |-> 0, subjectivity |-> 0]
NoRet == [kind |-> "none", scorerCalled |-> FALSE]
NoFile == [exists |-> FALSE, lines |-> <<>>, badAt |-> 0]
NoException == [type |-> "none", from |-> 0]
NoLog == [saved |-> FALSE, results |-> <<>>]
NoLogs == [t \in 0..MaxTime |-> NoLog]

\* the analyzer used without the application around it
NoApp ==
    /\ running = FALSE
    /\ choice = 0
    /\ caught = NoException
    /\ endedBy = "none"
    /\ now = 0
    /\ logs = NoLogs
    /\ shown = 0

(***************************************************************************)
(* ScoreSpec: calls of analyze_text.                                       *)
(***************************************************************************)
ScoreInit ==
    /\ pc = "idle"
    /\ text = <<>>
    /\ score = NoScore
    /\ ret = NoRet
    /\ file = NoFile
    /\ line_num = 0
    /\ results = <<>>
    /\ printed = <<>>
    /\ NoApp

\* analyze_text raises ValueError at its guard
ScoreRejects ==
    /\ pc = "idle"
    /\ \E t \in Texts :
        /\ IsEmptyInput(t)
        /\ text' = t
        /\ score' = NoScore
        /\ ret' = AnalyzeText(t, NoScore)
    /\ pc' = "raised"
    /\ UNCHANGED <<batchVars, appVars>>

\* the base scorer raises inside analyze_text
ScoreFails ==
    /\ pc = "idle"
    /\ \E t \in Texts, s \in Scores :
        /\ ~IsEmptyInput(t)
        /\ ~s.ok
        /\ text' = t
        /\ score' = s
        /\ ret' = AnalyzeText(t, s)
    /\ pc' = "raised"
    /\ UNCHANGED <<batchVars, appVars>>

\* analyze_text returns a result
ScoreReturns ==
    /\ pc = "idle"
    /\ \E t \in Texts, s \in Scores :
        /\ ~IsEmptyInput(t)
        /\ s.ok
        /\ text' = t
        /\ score' = s
        /\ ret' = AnalyzeText(t, s)
    /\ pc' = "returned"
    /\ UNCHANGED <<batchVars, appVars>>

\* the caller is ready for the next call
ScoreAgain ==
    /\ pc \in {"raised", "returned"}
    /\ pc' = "idle"
    /\ text' = <<>>
    /\ score' = NoScore
    /\ ret' = NoRet
    /\ UNCHANGED <<batchVars, appVars>>

ScoreNext == ScoreRejects \/ ScoreFails \/ ScoreReturns \/ ScoreAgain

ScoreSpec == ScoreInit /\ [][ScoreNext]_vars

(***************************************************************************)
(* Properties of analyze_text (ScoreSpec).                                 *)
(***************************************************************************)
Returned == ret.kind = "result"

\* a text made of whitespace only (the empty text included)
IsBlank(t) == \A i \in 1..Len(t) : t[i] = WS

\* r is t without its leading and trailing whitespace
IsTrimOf(r, t) ==
    \E a \in 1..Len(t), b \in 1..Len(t) :
        /\ a <= b
        /\ r = SubSeq(t, a, b)
        /\ t[a] # WS /\ t[b] # WS
        /\ \A i \in 1..Len(t) : (i < a \/ i > b) => t[i] = WS

\* C1: every result of analyze_text has polarity in [-1.0, 1.0] and
\* subjectivity in [0.0, 1.0], and the keyword adjustment never leaves
\* [-1.0, 1.0].  (The code breaks this.)
C1_ScoresInRange ==
    Returned =>
        /\ ret.adjusted >= -One /\ ret.adjusted <= One
        /\ ret.result.polarity >= -Milli /\ ret.result.polarity <= Milli
        /\ ret.result.subjectivity >= 0 /\ ret.result.subjectivity <= Milli

\* C2: the sentiment of every result is the classification of the result's
\* stored, 3-decimal polarity.  (The code breaks this.)
C2_SentimentOfStoredPolarity ==
    Returned =>
        /\ (ret.result.sentiment = "POSITIVO") = (20 * ret.result.polarity > Milli)
        /\ (ret.result.sentiment = "NEGATIVO") = (20 * ret.result.polarity < -Milli)

\* C3: _classify_sentiment gives POSITIVO exactly above 0.05, NEGATIVO exactly
\* below -0.05 and NEUTRAL otherwise, 0.05 and -0.05 included; always one of
\* the three labels.
C3_ClassifyThresholds ==
    Returned =>
        /\ ret.result.sentiment \in {"POSITIVO", "NEGATIVO", "NEUTRAL"}
        /\ (ret.result.sentiment = "POSITIVO") = (20 * ret.adjusted > One)
        /\ (ret.result.sentiment = "NEGATIVO") = (20 * ret.adjusted < -One)
        /\ (ret.result.sentiment = "NEUTRAL")
              = (20 * ret.adjusted <= One /\ 20 * ret.adjusted >= -One)

\* a polarity of exactly 0.05 was classified, as NEUTRAL
C3_Witness ==
    Returned /\ 20 * ret.adjusted = One /\ ret.result.sentiment = "NEUTRAL"

\* C4: analyze_text on an empty or whitespace-only text raises the empty-input
\* error without consulting the base scorer and returns nothing; the text of
\* every result is non-empty and is the input without its leading and
\* trailing whitespace.
C4_EmptyInputRejected ==
    pc \in {"raised", "returned"} =>
        /\ IsBlank(text) => (ret.kind = "ValueError" /\ ~ret.scorerCalled)
        /\ Returned =>
              /\ ret.result.text # <<>>
              /\ IsTrimOf(ret.result.text, text)

\* a whitespace-only text was rejected
C4_Witness ==
    /\ pc = "raised"
    /\ text # <<>>
    /\ IsBlank(text)
    /\ ret.kind = "ValueError"

(***************************************************************************)
(* Properties of the keyword adjustment (ScoreSpec).                       *)
(***************************************************************************)
\* the keywords of a list that occur in the text, whatever their case and
\* however often
Matched(keywords, t) ==
    {k \in 1..Len(keywords) : \E i \in 1..Len(t) : LowerToken(t[i]) = keywords[k]}

PosMatched == Cardinality(Matched(positive_keywords, text))
NegMatched == Cardinality(Matched(negative_keywords, text))

InBand == Abs(score.polarity) < U(NoSignalBand)

\* some keyword occurs more than once in the text
SaidTwice ==
    \E i \in 1..Len(text), j \in 1..Len(text) :
        /\ i # j
        /\ LowerToken(text[i]) = LowerToken(text[j])
        /\ \E k \in 1..Len(positive_keywords) :
              LowerToken(text[i]) \in {positive_keywords[k], negative_keywords[k]}

\* C13: a base polarity of magnitude below 0.1 with as many positive as
\* negative keywords matched (none of each, or the same number of each) is
\* returned unchanged.  (The code breaks this.)
C13_TieLeavesBase ==
    (Returned /\ InBand /\ PosMatched = NegMatched) =>
        ret.adjusted = score.polarity

\* the rule of the specification outside the tie in the band
RuleOfSpec(base, pos, neg) ==
    IF Abs(base) < U(NoSignalBand) /\ pos > neg
    THEN U(KeywordBase) + U(KeywordStep) * pos
    ELSE IF Abs(base) < U(NoSignalBand) /\ neg > pos
    THEN -U(KeywordBase) - U(KeywordStep) * neg
    ELSE IF pos >= 1 /\ base > 0 THEN Min(One, base + U(AmplifyStep) * pos)
    ELSE IF neg >= 1 /\ base < 0 THEN Max(-One, base - U(AmplifyStep) * neg)
    ELSE base

\* C14: unless the counts are tied inside the band |base| < 0.1, the
\* adjusted polarity is what the rule of the specification gives for the
\* base polarity and the numbers of distinct keywords matched, a keyword
\* counting once however often it occurs.
C14_AdjustmentRule ==
    (Returned /\ ~(InBand /\ PosMatched = NegMatched)) =>
        ret.adjusted = RuleOfSpec(score.polarity, PosMatched, NegMatched)

\* one positive keyword said twice lifted a base polarity of 0.0 to 0.4
C14_Witness ==
    /\ Returned
    /\ SaidTwice
    /\ score.polarity = 0
    /\ PosMatched = 1 /\ NegMatched = 0
    /\ ret.adjusted = U(KeywordBase) + U(KeywordStep)

\* C15: with negative keywords only the adjusted polarity is at most the
\* base polarity, with positive keywords only it is at least the base
\* polarity.
C15_AdjustmentDirection ==
    Returned =>
        /\ (NegMatched >= 1 /\ PosMatched = 0) => ret.adjusted <= score.polarity
        /\ (PosMatched >= 1 /\ NegMatched = 0) => ret.adjusted >= score.polarity

\* negative keywords only, outside the band, and the polarity went down
C15_Witness ==
    /\ Returned
    /\ NegMatched >= 1 /\ PosMatched = 0
    /\ ~InBand
    /\ ret.adjusted < score.polarity

(***************************************************************************)
(* SentimentAnalyzer.analyze_file.                                         *)
(*                                                                         *)
(* A file is [exists, lines, badAt]: whether os.path.exists finds it, its  *)
(* lines (each with what the base scorer answers for it), and where        *)
(* reading it raises: badAt = 0 never, badAt = k when line k is fetched    *)
(* (k = 1 covers open() raising).                                          *)
(***************************************************************************)
\* result['line_number'] = line_num
WithLineNumber(r, n) ==
    [text |-> r.text, polarity |-> r.polarity, subjectivity |-> r.subjectivity,
     sentiment |-> r.sentiment, line_number |-> n]

\* as ProcessLine, numbering the lines from 0
ProcessLineFromZero(rs, n, ln) ==
    LET line == Strip(ln.text)
        r == AnalyzeText(line, ln.score)
    IN  IF line = <<>> THEN rs
        ELSE IF r.kind = "result"
        THEN Append(rs, WithLineNumber(r.result, n - 1))
        ELSE rs

\* the loop body for line number n holding ln, given the results so far
ProcessLine(rs, n, ln) ==
    LET line == Strip(ln.text)
        r == AnalyzeText(line, ln.score)
    IN  IF line = <<>> THEN rs
        ELSE IF r.kind = "result"
        THEN Append(rs, WithLineNumber(r.result, n))
        ELSE rs

\* analyze_text raises for the line (the inner except clause runs)
LineRaises(ln) ==
    /\ Strip(ln.text) # <<>>
    /\ AnalyzeText(Strip(ln.text), ln.score).kind # "result"

\* the contents a line can have, and the contents of a file
LineScores == {NoScore, [ok |-> TRUE, polarity |-> 0, subjectivity |-> U(333) + 1]}

Lines ==
    {[text |-> t, score |-> NoScore] : t \in {<<>>, Pad(MaxPad)}}
    \cup
    {[text |-> t, score |-> s] :
        t \in {Phrase(0, 0, 0, 0), Phrase(MaxPad, 1, 0, MaxPad)}, s \in LineScores}

SeqsUpTo(S, n) == UNION {[1..k -> S] : k \in 0..n}

Files ==
    {NoFile} \cup
    {[exists |-> TRUE, lines |-> ls, badAt |-> b] :
        ls \in SeqsUpTo(Lines, MaxLines), b \in 0..(MaxLines + 1)}

(***************************************************************************)
(* BatchSpec: calls of analyze_file.                                       *)
(***************************************************************************)
BatchInit ==
    /\ pc = "idle"
    /\ ret = NoRet
    /\ text = <<>>
    /\ score = NoScore
    /\ file = NoFile
    /\ line_num = 0
    /\ results = <<>>
    /\ printed = <<>>
    /\ NoApp

\* os.path.exists(file_path) is false: raise FileNotFoundError
FileMissing ==
    /\ pc = "idle"
    /\ \E f \in Files :
        /\ ~f.exists
        /\ file' = f
    /\ ret' = [kind |-> "FileNotFoundError"]
    /\ pc' = "raised"
    /\ UNCHANGED <<scoreVars, line_num, results, printed, appVars>>

\* the file exists: results = [] and the try block is entered
FileOpens ==
    /\ pc = "idle"
    /\ \E f \in Files :
        /\ f.exists
        /\ f.badAt <= Len(f.lines) + 1
        /\ file' = f
    /\ results' = <<>>
    /\ line_num' = 0
    /\ printed' = <<>>
    /\ pc' = "reading"
    /\ UNCHANGED <<scoreVars, ret, appVars>>

\* the next line is there and is read without error
NextLineRead ==
    /\ pc = "reading"
    /\ line_num < Len(file.lines)
    /\ file.badAt # line_num + 1

\* one turn of the loop on a line that is empty once stripped
SkipBlankLine ==
    /\ NextLineRead
    /\ Strip(file.lines[line_num + 1].text) = <<>>
    /\ line_num' = line_num + 1
    /\ results' = ProcessLine(results, line_num + 1, file.lines[line_num + 1])
    /\ UNCHANGED <<pc, ret, scoreVars, file, printed, appVars>>

\* one turn of the loop on a line that analyze_text scores
ScoreLine ==
    /\ NextLineRead
    /\ Strip(file.lines[line_num + 1].text) # <<>>
    /\ ~LineRaises(file.lines[line_num + 1])
    /\ line_num' = line_num + 1
    /\ results' = ProcessLine(results, line_num + 1, file.lines[line_num + 1])
    /\ UNCHANGED <<pc, ret, scoreVars, file, printed, appVars>>

\* as LineFails, the exception leaving the loop
LineFailsAborts ==
    /\ NextLineRead
    /\ LineRaises(file.lines[line_num + 1])
    /\ line_num' = line_num + 1
    /\ ret' = [kind |-> "Exception"]
    /\ pc' = "raised"
    /\ UNCHANGED <<scoreVars, file, results, printed, appVars>>

\* one turn of the loop on a line for which analyze_text raises: the error
\* is printed and the loop continues
LineFails ==
    /\ NextLineRead
    /\ LineRaises(file.lines[line_num + 1])
    /\ line_num' = line_num + 1
    /\ results' = ProcessLine(results, line_num + 1, file.lines[line_num + 1])
    /\ printed' = Append(printed, line_num + 1)
    /\ UNCHANGED <<pc, ret, scoreVars, file, appVars>>

\* as ReadError, the error swallowed and the results so far returned
ReadErrorSwallowed ==
    /\ pc = "reading"
    /\ file.badAt = line_num + 1
    /\ ret' = [kind |-> "results", results |-> results]
    /\ pc' = "returned"
    /\ UNCHANGED <<scoreVars, batchVars, appVars>>

\* open() or the read of the next line raises: the outer except clause
\* raises Exception("Error leyendo el archivo: ...")
ReadError ==
    /\ pc = "reading"
    /\ file.badAt = line_num + 1
    /\ ret' = [kind |-> "Exception"]
    /\ pc' = "raised"
    /\ UNCHANGED <<scoreVars, batchVars, appVars>>

\* the file is exhausted: return results
FileReturns ==
    /\ pc = "reading"
    /\ line_num = Len(file.lines)
    /\ file.badAt # line_num + 1
    /\ ret' = [kind |-> "results", results |-> results]
    /\ pc' = "returned"
    /\ UNCHANGED <<scoreVars, batchVars, appVars>>

\* the caller is ready for the next call
BatchAgain ==
    /\ pc \in {"raised", "returned"}
    /\ pc' = "idle"
    /\ ret' = NoRet
    /\ file' = NoFile
    /\ line_num' = 0
    /\ results' = <<>>
    /\ printed' = <<>>
    /\ UNCHANGED <<scoreVars, appVars>>

BatchNext ==
    \/ FileMissing
    \/ FileOpens
    \/ SkipBlankLine
    \/ ScoreLine
    \/ LineFails
    \/ ReadError
    \/ FileReturns
    \/ BatchAgain

BatchSpec == BatchInit /\ [][BatchNext]_vars

(***************************************************************************)
(* Properties of analyze_file (BatchSpec).                                 *)
(***************************************************************************)
BatchReturned == pc = "returned" /\ ret.kind = "results"
BatchRaised == pc = "raised" /\ ret.kind \in {"FileNotFoundError", "Exception"}

LineNumbers == 1..Len(file.lines)
\* the lines that are blank once trimmed
BlankLines == {n \in LineNumbers : IsBlank(file.lines[n].text)}
\* the non-blank lines whose scoring fails
FailingLines ==
    {n \in LineNumbers : ~IsBlank(file.lines[n].text) /\ ~file.lines[n].score.ok}
\* the non-blank lines whose scoring succeeds
ScoredLines == LineNumbers \ (BlankLines \cup FailingLines)

\* rs[i] carries the line number of the i-th line of S, and that line's text
NumberedAs(rs, S) ==
    \A i \in 1..Len(rs) :
        /\ rs[i].line_number \in S
        /\ Cardinality({m \in S : m <= rs[i].line_number}) = i
        /\ IsTrimOf(rs[i].text, file.lines[rs[i].line_number].text)

\* C5 as claimed: a file of N lines with K blank ones yields exactly N-K
\* results, each numbered by the position of its line.  (Refuted: a line
\* whose scoring fails yields no result.)
C5_AllNonBlankLinesYield ==
    BatchReturned =>
        /\ Len(ret.results) = Len(file.lines) - Cardinality(BlankLines)
        /\ NumberedAs(ret.results, LineNumbers \ BlankLines)

\* C5, amended: a readable file of N lines, K of them blank once trimmed and
\* F of them failing to score, yields exactly N-K-F results, and each
\* result's line_number is the 1-indexed position of its line in the file,
\* the skipped lines counted.
C5_ResultsPerLine ==
    BatchReturned =>
        /\ Len(ret.results)
              = Len(file.lines) - Cardinality(BlankLines) - Cardinality(FailingLines)
        /\ NumberedAs(ret.results, ScoredLines)

\* a file with a blank line and a failing line before a scored line
C5_Witness ==
    /\ BatchReturned
    /\ \E b \in BlankLines, f \in FailingLines :
          \E i \in 1..Len(ret.results) :
              /\ ret.results[i].line_number > b
              /\ ret.results[i].line_number > f

\* C6: a line whose scoring fails never aborts analyze_file: it is skipped
\* (its error printed), every other non-blank line yields a result, and the
\* results come in line order, line_number strictly increasing.
C6_LineFailureIsolated ==
    /\ BatchReturned =>
          /\ {ret.results[i].line_number : i \in 1..Len(ret.results)} = ScoredLines
          /\ \A i \in 1..Len(ret.results), j \in 1..Len(ret.results) :
                i < j => ret.results[i].line_number < ret.results[j].line_number
          /\ {printed[i] : i \in 1..Len(printed)} = FailingLines
    /\ (pc = "raised" /\ file.exists) => file.badAt = line_num + 1
    /\ (pc = "reading" /\ printed # <<>>) => printed[Len(printed)] <= line_num

\* a line failed between two lines that yielded results
C6_Witness ==
    /\ BatchReturned
    /\ \E f \in FailingLines :
          \E i \in 1..Len(ret.results), j \in 1..Len(ret.results) :
              /\ ret.results[i].line_number < f
              /\ f < ret.results[j].line_number

\* C7 as claimed: analyze_file raises only before any line is processed;
\* once a line has been scored it returns results.  (Refuted: a read error
\* in the middle of the file raises.)
C7_RaisesBeforeAnyLine ==
    BatchRaised => results = <<>>

\* C7, amended: analyze_file raises exactly when the file does not exist or
\* opening or reading it raises.  The existence check precedes every line,
\* but a read error can come after lines were scored, and then the call
\* raises and returns no results.  It returns results exactly when the file
\* exists and was read to its end without error.
C7_SourceErrors ==
    /\ pc = "raised" =>
          /\ BatchRaised
          /\ (ret.kind = "FileNotFoundError")
                = (~file.exists /\ line_num = 0 /\ results = <<>>)
          /\ (ret.kind = "Exception")
                = (file.exists /\ file.badAt = line_num + 1)
    /\ pc = "returned" =>
          /\ BatchReturned
          /\ file.exists /\ file.badAt = 0
          /\ line_num = Len(file.lines)
          /\ ret.results = results

\* a read error raised after a line had been scored
C7_Witness ==
    /\ BatchRaised
    /\ ret.kind = "Exception"
    /\ results # <<>>

(***************************************************************************)
(* SentimentAnalyzer.get_analysis_summary and utils.format_summary.        *)
(* Percentages are in tenths of a percent, averages in milli.              *)
(***************************************************************************)
\* sum(1 for r in results if r['sentiment'] == label)
CountSentiment(rs, label) ==
    Cardinality({i \in 1..Len(rs) : rs[i].sentiment = label})

RECURSIVE SumPolarity(_)
SumPolarity(rs) ==
    IF rs = <<>> THEN 0 ELSE Head(rs).polarity + SumPolarity(Tail(rs))

RECURSIVE SumSubjectivity(_)
SumSubjectivity(rs) ==
    IF rs = <<>> THEN 0 ELSE Head(rs).subjectivity + SumSubjectivity(Tail(rs))

\* as Percentage, truncated instead of rounded
PercentageTruncated(count, total) == (count * 100 * 10) \div total

\* round((count / total) * 100, 1)
Percentage(count, total) == Round(count * 100 * 10, total)

\* lines 255-273; a division by a total of 0 raises ZeroDivisionError
SummaryBody(rs) ==
    LET total == Len(rs)
        positive == CountSentiment(rs, "POSITIVO")
        negative == CountSentiment(rs, "NEGATIVO")
        neutral == CountSentiment(rs, "NEUTRAL")
    IN  IF total = 0
        THEN [kind |-> "ZeroDivisionError", divisions |-> 1]
        ELSE [kind |-> "summary",
              divisions |-> 5,
              total_texts |-> total,
              positive_count |-> positive,
              negative_count |-> negative,
              neutral_count |-> neutral,
              positive_percentage |-> Percentage(positive, total),
              negative_percentage |-> Percentage(negative, total),
              neutral_percentage |-> Percentage(neutral, total),
              average_polarity |-> Round(SumPolarity(rs), total),
              average_subjectivity |-> Round(SumSubjectivity(rs), total)]

\* as GetAnalysisSummary, without the test for no results
GetAnalysisSummaryUnguarded(rs) == SummaryBody(rs)

GetAnalysisSummary(rs) ==
    IF rs = <<>> THEN [kind |-> "empty", divisions |-> 0] ELSE SummaryBody(rs)

\* which of its two texts format_summary returns
FormatSummary(summary) ==
    IF summary.kind = "empty"
    THEN "No hay datos para mostrar resumen"
    ELSE "RESUMEN ESTADISTICO"

\* one result of analyze_text per label
SampleResults ==
    {AnalyzeText(Phrase(0, c[1], c[2], 0),
                 [ok |-> TRUE, polarity |-> 0, subjectivity |-> U(333) + 1]).result :
        c \in {<<1, 0>>, <<0, 1>>, <<0, 0>>}}

SampleOf(label) == CHOOSE r \in SampleResults : r.sentiment = label

\* a POSITIVO results, then b NEGATIVO ones, then c NEUTRAL ones
Blocks(a, b, c) ==
    [i \in 1..(a + b + c) |->
        IF i <= a THEN SampleOf("POSITIVO")
        ELSE IF i <= a + b THEN SampleOf("NEGATIVO")
        ELSE SampleOf("NEUTRAL")]

\* the result lists summarised: every short list, and every mix of labels up
\* to MaxResults results
ResultLists ==
    SeqsUpTo(SampleResults, 3)
    \cup {Blocks(t[1], t[2], t[3]) :
            t \in {u \in (0..MaxResults) \X (0..MaxResults) \X (0..MaxResults) :
                      u[1] + u[2] + u[3] <= MaxResults}}

(***************************************************************************)
(* SummarySpec: calls of get_analysis_summary, its result formatted.       *)
(***************************************************************************)
SummaryInit ==
    /\ pc = "idle"
    /\ ret = NoRet
    /\ text = <<>>
    /\ score = NoScore
    /\ file = NoFile
    /\ line_num = 0
    /\ results \in ResultLists
    /\ printed = <<>>
    /\ NoApp

\* get_analysis_summary(results) with no results: the empty summary
SummarizeNothing ==
    /\ pc = "idle"
    /\ results = <<>>
    /\ ret' = [summary |-> GetAnalysisSummary(results),
               shown |-> FormatSummary(GetAnalysisSummary(results))]
    /\ pc' = "returned"
    /\ UNCHANGED <<scoreVars, batchVars, appVars>>

\* get_analysis_summary(results) with results
Summarize ==
    /\ pc = "idle"
    /\ results # <<>>
    /\ ret' = [summary |-> GetAnalysisSummary(results),
               shown |-> FormatSummary(GetAnalysisSummary(results))]
    /\ pc' = "returned"
    /\ UNCHANGED <<scoreVars, batchVars, appVars>>

SummaryNext == SummarizeNothing \/ Summarize

SummarySpec == SummaryInit /\ [][SummaryNext]_vars

(***************************************************************************)
(* Properties of get_analysis_summary (SummarySpec).                       *)
(***************************************************************************)
Summarized == pc = "returned"

\* C8: get_analysis_summary on an empty sequence returns the empty summary,
\* without raising and without dividing; on a non-empty one it returns
\* total_texts equal to the length of the sequence.
C8_EmptySummary ==
    Summarized =>
        /\ results = <<>> =>
              /\ ret.summary.kind = "empty"
              /\ ret.summary.divisions = 0
              /\ ret.shown = "No hay datos para mostrar resumen"
        /\ results # <<>> =>
              /\ ret.summary.kind = "summary"
              /\ ret.summary.total_texts = Len(results)

\* the empty sequence was summarised
C8_Witness ==
    Summarized /\ results = <<>> /\ ret.summary.kind = "empty"

\* C9: for a non-empty sequence of results labelled POSITIVO, NEGATIVO or
\* NEUTRAL the three counts add up to total_texts and the three percentages,
\* each rounded to one decimal, add up to 100.0 give or take 0.1.
C9_CountsAndPercentages ==
    (/\ Summarized
     /\ results # <<>>
     /\ \A i \in 1..Len(results) :
           results[i].sentiment \in {"POSITIVO", "NEGATIVO", "NEUTRAL"}) =>
        LET sm == ret.summary
            pct == sm.positive_percentage + sm.negative_percentage
                       + sm.neutral_percentage
        IN  /\ sm.positive_count + sm.negative_count + sm.neutral_count
                  = sm.total_texts
            /\ pct >= 999 /\ pct <= 1001

\* three labels present and the rounded percentages do not add up to 100.0
C9_Witness ==
    /\ Summarized
    /\ ret.summary.kind = "summary"
    /\ ret.summary.positive_count > 0
    /\ ret.summary.negative_count > 0
    /\ ret.summary.neutral_count > 0
    /\ ret.summary.positive_percentage + ret.summary.negative_percentage
          + ret.summary.neutral_percentage = 1001

(***************************************************************************)
(* The application (src/main.py, src/utils.py).                            *)
(*                                                                         *)
(* Every input() is one step.  It returns a line, or raises                *)
(* KeyboardInterrupt (Ctrl-C) or EOFError (end of input); the clock may    *)
(* advance while it waits.  The code that runs between two inputs belongs  *)
(* to the step of the input before it.                                     *)
(***************************************************************************)
\* analyze_file as one call: the loop of lines 131-140 run to its end
RECURSIVE ReadLines(_, _, _)
ReadLines(f, n, rs) ==
    IF f.badAt = n + 1 THEN [kind |-> "Exception"]
    ELSE IF n = Len(f.lines) THEN [kind |-> "results", results |-> rs]
    ELSE ReadLines(f, n + 1, ProcessLine(rs, n + 1, f.lines[n + 1]))

AnalyzeFile(f) ==
    IF ~f.exists THEN [kind |-> "FileNotFoundError"] ELSE ReadLines(f, 0, <<>>)

\* save_to_log(results) at time t with the default file name: the file
\* named after t is opened with mode 'w' and written
SaveToLog(ls, t, rs) == [ls EXCEPT ![t] = [saved |-> TRUE, results |-> rs]]

\* get_log_files(log_dir)
GetLogFiles(ls) == {t \in DOMAIN ls : ls[t].saved}

\* validate_file_path: the path exists and its first character can be read
ValidateFilePath(f) == f.exists /\ f.badAt # 1

\* what the user types as a text: stripped by get_user_input
AppTexts == {Strip(Phrase(0, p, 0, 0)) : p \in 0..1}

OkScore == [ok |-> TRUE, polarity |-> 0, subjectivity |-> U(333) + 1]
\* what the base scorer answers in the application: a score or an exception
AppScores == {OkScore, NoScore}
\* "Texto de prueba"
StartupText == <<"Texto", WS, "de", WS, "prueba">>
OkLine == [text |-> Phrase(0, 1, 0, 0), score |-> OkScore]
FailingLine == [text |-> Phrase(0, 0, 0, 0), score |-> NoScore]
BlankLine == [text |-> Pad(1), score |-> NoScore]

FileOf(ls, b) == [exists |-> TRUE, lines |-> ls, badAt |-> b]

\* the files the user names
AppFiles ==
    { NoFile,
      FileOf(<<OkLine>>, 1),
      FileOf(<<>>, 0),
      FileOf(<<BlankLine>>, 0),
      FileOf(<<OkLine>>, 0),
      FileOf(<<FailingLine, OkLine>>, 0),
      FileOf(<<OkLine, OkLine>>, 2),
      FileOf([i \in 1..(PauseEvery + 1) |-> OkLine], 0) }

\* the clock while an input() waits
Tick == now' \in {now} \cup {t \in {now + 1} : t <= MaxTime}

\* the locals of a handler are dropped
Forget ==
    /\ choice' = 0
    /\ text' = <<>>
    /\ score' = NoScore
    /\ ret' = NoRet
    /\ file' = NoFile
    /\ results' = <<>>
    /\ shown' = 0

ToMenu == pc' = "menu" /\ Forget

EndedWith(cause) == pc' = "ended" /\ endedBy' = cause

AppInit ==
    /\ pc = "startup"
    /\ running = TRUE
    /\ choice = 0
    /\ caught = NoException
    /\ endedBy = "none"
    /\ now = 0
    /\ logs = NoLogs
    /\ shown = 0
    /\ text = <<>>
    /\ score = NoScore
    /\ ret = NoRet
    /\ file = NoFile
    /\ line_num = 0
    /\ results = <<>>
    /\ printed = <<>>

\* run: analyze_text("Texto de prueba") succeeds
StartupCheck ==
    /\ pc = "startup"
    /\ \E s \in AppScores : AnalyzeText(StartupText, s).kind = "result"
    /\ pc' = "startup_pause"
    /\ UNCHANGED <<ret, scoreVars, batchVars, appVars>>

\* run: analyze_text("Texto de prueba") raises: the error is printed and run
\* returns
StartupCheckFails ==
    /\ pc = "startup"
    /\ \E s \in AppScores : AnalyzeText(StartupText, s).kind # "result"
    /\ EndedWith("startup")
    /\ UNCHANGED <<ret, scoreVars, batchVars, running, choice, caught, now, logs, shown>>

\* pause() returns where the handler then returns to the loop of run: the
\* pause() before the loop, at the end of a handler, after an empty file,
\* after a log was shown, and in run's except clause
PauseDone ==
    /\ pc \in {"startup_pause", "handler_pause", "file_empty_pause",
               "history_pause", "error_pause"}
    /\ Tick
    /\ ToMenu
    /\ caught' = NoException
    /\ UNCHANGED <<line_num, printed, running, endedBy, logs>>

\* input() raises KeyboardInterrupt where nothing but run's "except
\* KeyboardInterrupt: break" (or, outside the try of run, main) catches it
Interrupted ==
    /\ pc \in {"startup_pause", "single_save_prompt", "handler_pause",
               "file_empty_pause", "file_details_prompt", "file_continue_prompt",
               "history_choice", "history_pause", "error_pause"}
    /\ Tick
    /\ EndedWith("KeyboardInterrupt")
    /\ UNCHANGED <<ret, scoreVars, batchVars, running, choice, caught, logs, shown>>

\* input() raises EOFError inside the try block of a handler: its "except
\* Exception" prints the error and the handler goes on to its last pause()
EOFInHandler ==
    /\ pc \in {"single_save_prompt", "file_empty_pause", "file_details_prompt",
               "file_continue_prompt", "history_choice", "history_pause"}
    /\ Tick
    /\ pc' = "handler_pause"
    /\ UNCHANGED <<ret, scoreVars, batchVars, running, choice, caught, endedBy, logs, shown>>

\* input() raises EOFError where no handler catches it: it reaches run's
\* "except Exception as e", which prints it and calls pause()
EOFReachesRun ==
    /\ pc \in {"menu", "single_input", "file_input", "handler_pause"}
    /\ Tick
    /\ caught' = [type |-> "EOFError", from |-> choice]
    /\ pc' = "error_pause"
    /\ UNCHANGED <<ret, scoreVars, batchVars, running, choice, endedBy, logs, shown>>

\* input() raises EOFError in the pause() before the loop or in the pause()
\* of run's except clause: it leaves run, and main exits with status 1
EOFLeavesRun ==
    /\ pc \in {"startup_pause", "error_pause"}
    /\ Tick
    /\ EndedWith("exception")
    /\ UNCHANGED <<ret, scoreVars, batchVars, running, choice, caught, logs, shown>>

\* an input that is asked for again: not a number from 1 to 4 in show_menu,
\* an empty text or a path that is not valid in get_user_input
InputRefused ==
    /\ pc \in {"menu", "single_input", "file_input"}
    /\ pc = "file_input" => \E f \in AppFiles : ~ValidateFilePath(f)
    /\ Tick
    /\ UNCHANGED <<pc, ret, scoreVars, batchVars, running, choice, caught, endedBy, logs, shown>>

\* get_user_input returns None on KeyboardInterrupt: the handler returns
InputCancelled ==
    /\ pc \in {"single_input", "file_input"}
    /\ Tick
    /\ ToMenu
    /\ UNCHANGED <<line_num, printed, running, caught, endedBy, logs>>

\* show_menu returns 1: analyze_single_text prompts for the text
ChooseSingle ==
    /\ pc = "menu"
    /\ Tick
    /\ choice' = 1
    /\ pc' = "single_input"
    /\ UNCHANGED <<ret, scoreVars, batchVars, running, caught, endedBy, logs, shown>>

\* show_menu returns 2: analyze_file prompts for the path
ChooseFile ==
    /\ pc = "menu"
    /\ Tick
    /\ choice' = 2
    /\ pc' = "file_input"
    /\ UNCHANGED <<ret, scoreVars, batchVars, running, caught, endedBy, logs, shown>>

\* show_menu returns 3: view_history lists the logs, or says there is none
\* and pauses
ChooseHistory ==
    /\ pc = "menu"
    /\ Tick
    /\ choice' = 3
    /\ pc' = IF GetLogFiles(logs) = {} THEN "handler_pause" ELSE "history_choice"
    /\ UNCHANGED <<ret, scoreVars, batchVars, running, caught, endedBy, logs, shown>>

\* show_menu returns 4, typed or on KeyboardInterrupt: exit_application
\* clears running and the loop ends
ChooseExit ==
    /\ pc = "menu"
    /\ Tick
    /\ choice' = 4
    /\ running' = FALSE
    /\ EndedWith("choice4")
    /\ UNCHANGED <<ret, scoreVars, batchVars, caught, logs, shown>>

\* analyze_single_text: the text is read and analyze_text returns a result,
\* which is shown; the user is asked whether to save it
SingleAnalyzed ==
    /\ pc = "single_input"
    /\ Tick
    /\ \E t \in AppTexts, s \in AppScores :
        /\ AnalyzeText(t, s).kind = "result"
        /\ text' = t
        /\ score' = s
        /\ ret' = AnalyzeText(t, s)
        /\ results' = <<AnalyzeText(t, s).result>>
    /\ pc' = "single_save_prompt"
    /\ UNCHANGED <<file, line_num, printed, running, choice, caught, endedBy, logs, shown>>

\* analyze_single_text: the text is read and analyze_text raises; the error
\* is printed
SingleAnalysisFails ==
    /\ pc = "single_input"
    /\ Tick
    /\ \E t \in AppTexts, s \in AppScores :
        /\ AnalyzeText(t, s).kind # "result"
        /\ text' = t
        /\ score' = s
        /\ ret' = AnalyzeText(t, s)
    /\ pc' = "handler_pause"
    /\ UNCHANGED <<batchVars, running, choice, caught, endedBy, logs, shown>>

\* the answer is yes: save_to_log([result]); an error of open() is printed
\* by save_to_log and the log directory is as before
SingleSaved ==
    /\ pc = "single_save_prompt"
    /\ Tick
    /\ \E written \in BOOLEAN :
        logs' = IF written THEN SaveToLog(logs, now', results) ELSE logs
    /\ pc' = "handler_pause"
    /\ UNCHANGED <<ret, scoreVars, batchVars, running, choice, caught, endedBy, shown>>

\* the answer is not yes
SingleNotSaved ==
    /\ pc = "single_save_prompt"
    /\ Tick
    /\ pc' = "handler_pause"
    /\ UNCHANGED <<ret, scoreVars, batchVars, running, choice, caught, endedBy, logs, shown>>

\* analyze_file (main): the path is valid and analyzer.analyze_file returns
\* results; the summary is shown and the user is asked about the details
FileAnalyzed ==
    /\ pc = "file_input"
    /\ Tick
    /\ \E f \in AppFiles :
        /\ ValidateFilePath(f)
        /\ AnalyzeFile(f).kind = "results"
        /\ AnalyzeFile(f).results # <<>>
        /\ file' = f
        /\ results' = AnalyzeFile(f).results
        /\ ret' = [summary |-> GetAnalysisSummary(AnalyzeFile(f).results),
                   shown |-> FormatSummary(GetAnalysisSummary(AnalyzeFile(f).results))]
    /\ pc' = "file_details_prompt"
    /\ UNCHANGED <<scoreVars, line_num, printed, running, choice, caught, endedBy, logs, shown>>

\* analyze_file (main): analyzer.analyze_file returns no result; this is
\* said, and pause() is called inside the try block
FileAnalyzedEmpty ==
    /\ pc = "file_input"
    /\ Tick
    /\ \E f \in AppFiles :
        /\ ValidateFilePath(f)
        /\ AnalyzeFile(f).kind = "results"
        /\ AnalyzeFile(f).results = <<>>
        /\ file' = f
        /\ ret' = AnalyzeFile(f)
    /\ pc' = "file_empty_pause"
    /\ UNCHANGED <<scoreVars, line_num, results, printed, running, choice, caught, endedBy, logs, shown>>

\* analyze_file (main): analyzer.analyze_file raises; the error is printed
FileAnalysisFails ==
    /\ pc = "file_input"
    /\ Tick
    /\ \E f \in AppFiles :
        /\ ValidateFilePath(f)
        /\ AnalyzeFile(f).kind # "results"
        /\ file' = f
        /\ ret' = AnalyzeFile(f)
    /\ pc' = "handler_pause"
    /\ UNCHANGED <<scoreVars, line_num, results, printed, running, choice, caught, endedBy, logs, shown>>

\* the results shown after s were: up to the next multiple of PauseEvery
ShownAfter(n) == Min(Len(results), ((n \div PauseEvery) + 1) * PauseEvery)

\* the loop of the details stops for a question after the i-th result
AsksToContinue(i) == i % PauseEvery = 0 /\ i < Len(results)

\* the details are wanted: results are shown up to the first question, or
\* all of them, and then save_to_log(results)
FileDetailsShown ==
    /\ pc = "file_details_prompt"
    /\ Tick
    /\ shown' = ShownAfter(0)
    /\ IF AsksToContinue(ShownAfter(0))
       THEN /\ pc' = "file_continue_prompt"
            /\ logs' = logs
       ELSE /\ pc' = "handler_pause"
            /\ \E written \in BOOLEAN :
                logs' = IF written THEN SaveToLog(logs, now', results) ELSE logs
    /\ UNCHANGED <<ret, scoreVars, batchVars, running, choice, caught, endedBy>>

\* the details are not wanted: save_to_log(results)
FileDetailsSkipped ==
    /\ pc = "file_details_prompt"
    /\ Tick
    /\ \E written \in BOOLEAN :
        logs' = IF written THEN SaveToLog(logs, now', results) ELSE logs
    /\ pc' = "handler_pause"
    /\ UNCHANGED <<ret, scoreVars, batchVars, running, choice, caught, endedBy, shown>>

\* the user goes on: the next results are shown, then save_to_log(results)
\* unless the loop asks again
FileDetailsContinued ==
    /\ pc = "file_continue_prompt"
    /\ Tick
    /\ shown' = ShownAfter(shown)
    /\ IF AsksToContinue(ShownAfter(shown))
       THEN /\ pc' = "file_continue_prompt"
            /\ logs' = logs
       ELSE /\ pc' = "handler_pause"
            /\ \E written \in BOOLEAN :
                logs' = IF written THEN SaveToLog(logs, now', results) ELSE logs
    /\ UNCHANGED <<ret, scoreVars, batchVars, running, choice, caught, endedBy>>

\* the user stops the details: break, then save_to_log(results)
FileDetailsStopped ==
    /\ pc = "file_continue_prompt"
    /\ Tick
    /\ \E written \in BOOLEAN :
        logs' = IF written THEN SaveToLog(logs, now', results) ELSE logs
    /\ pc' = "handler_pause"
    /\ UNCHANGED <<ret, scoreVars, batchVars, running, choice, caught, endedBy, shown>>

\* view_history: Enter alone: return
HistoryLeft ==
    /\ pc = "history_choice"
    /\ Tick
    /\ ToMenu
    /\ UNCHANGED <<line_num, printed, running, caught, endedBy, logs>>

\* view_history: a number: the log is shown by display_log_content, or the
\* selection is said to be invalid; pause() is called inside the try block
HistorySelected ==
    /\ pc = "history_choice"
    /\ Tick
    /\ pc' = "history_pause"
    /\ UNCHANGED <<ret, scoreVars, batchVars, running, choice, caught, endedBy, logs, shown>>

\* view_history: not a number: "except ValueError" prints and calls pause()
HistoryNotANumber ==
    /\ pc = "history_choice"
    /\ Tick
    /\ pc' = "handler_pause"
    /\ UNCHANGED <<ret, scoreVars, batchVars, running, choice, caught, endedBy, logs, shown>>

Next ==
    \/ StartupCheck
    \/ StartupCheckFails
    \/ PauseDone
    \/ Interrupted
    \/ EOFInHandler
    \/ EOFReachesRun
    \/ EOFLeavesRun
    \/ InputRefused
    \/ InputCancelled
    \/ ChooseSingle
    \/ ChooseFile
    \/ ChooseHistory
    \/ ChooseExit
    \/ SingleAnalyzed
    \/ SingleAnalysisFails
    \/ SingleSaved
    \/ SingleNotSaved
    \/ FileAnalyzed
    \/ FileAnalyzedEmpty
    \/ FileAnalysisFails
    \/ FileDetailsShown
    \/ FileDetailsSkipped
    \/ FileDetailsContinued
    \/ FileDetailsStopped
    \/ HistoryLeft
    \/ HistorySelected
    \/ HistoryNotANumber

Spec == AppInit /\ [][Next]_vars

(***************************************************************************)
(* Properties of the application (Spec).                                   *)
(***************************************************************************)
\* the exception in run's except clause was raised while a menu choice
\* (single text, file, history) was handled
FailedInHandler == caught.type # "none" /\ caught.from \in {1, 2, 3}

\* C10: a failure raised while a menu choice is handled never ends the
\* session; the loop ends only through menu choice 4 or a keyboard
\* interrupt.  (The code breaks this.)
C10_SessionSurvivesFailures ==
    (pc = "ended" /\ FailedInHandler) => endedBy \in {"choice4", "KeyboardInterrupt"}

\* C12: the log is append-only: what a call of save_to_log has persisted is
\* still there, unaltered, after every later step.  (The code breaks this.)
C12_LogAppendOnly ==
    [][\A t \in DOMAIN logs : logs[t].saved => logs'[t] = logs[t]]_vars

(***************************************************************************)
(* Descriptions (get_polarity_description, get_subjectivity_description,   *)
(* format_result).  A description is a sequence of tokens.                 *)
(***************************************************************************)
\* abs_polarity >= 0.7, >= 0.3, >= 0.05, in milli
VeryPolar == 700
ModeratelyPolar == 300
SlightlyPolar == 50
\* subjectivity >= 0.7, >= 0.4, >= 0.1, in milli
VerySubjective == 700
ModeratelySubjective == 400
SlightlySubjective == 100

\* as GetPolarityDescription, the thresholds themselves falling below
GetPolarityDescriptionStrict(polarity) ==
    LET abs_polarity == Abs(polarity)
        sentiment_type == IF polarity > 0 THEN "positivo" ELSE "negativo"
    IN  IF abs_polarity > U(VeryPolar) THEN <<"Muy", WS, sentiment_type>>
        ELSE IF abs_polarity > U(ModeratelyPolar)
        THEN <<"Moderadamente", WS, sentiment_type>>
        ELSE IF abs_polarity > U(SlightlyPolar)
        THEN <<"Ligeramente", WS, sentiment_type>>
        ELSE <<"Neutral">>

\* get_polarity_description on a polarity given in units
GetPolarityDescription(polarity) ==
    LET abs_polarity == Abs(polarity)
        sentiment_type == IF polarity > 0 THEN "positivo" ELSE "negativo"
    IN  IF abs_polarity >= U(VeryPolar) THEN <<"Muy", WS, sentiment_type>>
        ELSE IF abs_polarity >= U(ModeratelyPolar)
        THEN <<"Moderadamente", WS, sentiment_type>>
        ELSE IF abs_polarity >= U(SlightlyPolar)
        THEN <<"Ligeramente", WS, sentiment_type>>
        ELSE <<"Neutral">>

\* get_subjectivity_description on a subjectivity given in units
GetSubjectivityDescription(subjectivity) ==
    IF subjectivity >= U(VerySubjective) THEN <<"Muy", WS, "subjetivo">>
    ELSE IF subjectivity >= U(ModeratelySubjective)
    THEN <<"Moderadamente", WS, "subjetivo">>
    ELSE IF subjectivity >= U(SlightlySubjective)
    THEN <<"Ligeramente", WS, "subjetivo">>
    ELSE <<"Objetivo">>

\* format_result: the fields of the result and the two descriptions, which
\* are taken of the stored (rounded) values
FormatResult(result) ==
    [text |-> result.text,
     sentiment |-> result.sentiment,
     polarity |-> result.polarity,
     polarity_description |-> GetPolarityDescription(U(result.polarity)),
     subjectivity |-> result.subjectivity,
     subjectivity_description |-> GetSubjectivityDescription(U(result.subjectivity))]

\* polarities handed to get_polarity_description on their own: every value
\* within 0.001 of 0 and of the three thresholds, and the multiples of 0.05
\* up to the largest value the keyword adjustment produces
DescribedPolarities ==
    LET top == KeywordBase + Len(positive_keywords) * KeywordStep
    IN  {p \in (-U(top))..U(top) :
            \/ p % U(SlightlyPolar) = 0
            \/ \E t \in {0, SlightlyPolar, ModeratelyPolar, VeryPolar} :
                  Abs(Abs(p) - U(t)) <= Sub}

(***************************************************************************)
(* DescribeSpec: results shown to the user, and get_polarity_description   *)
(* called on its own.                                                      *)
(***************************************************************************)
\* analyze_text returns a result and format_result formats it (main.py,
\* analyze_single_text)
ShowResult ==
    /\ pc = "idle"
    /\ \E t \in Texts, s \in Scores :
        /\ AnalyzeText(t, s).kind = "result"
        /\ text' = t
        /\ score' = s
        /\ ret' = [kind |-> "shown",
                   scorerCalled |-> TRUE,
                   adjusted |-> AnalyzeText(t, s).adjusted,
                   result |-> AnalyzeText(t, s).result,
                   formatted |-> FormatResult(AnalyzeText(t, s).result)]
    /\ pc' = "shown"
    /\ UNCHANGED <<batchVars, appVars>>

\* get_polarity_description(p)
DescribePolarity ==
    /\ pc = "idle"
    /\ \E p \in DescribedPolarities :
        ret' = [kind |-> "described",
                scorerCalled |-> FALSE,
                polarity |-> p,
                description |-> GetPolarityDescription(p)]
    /\ pc' = "described"
    /\ UNCHANGED <<scoreVars, batchVars, appVars>>

DescribeAgain ==
    /\ pc \in {"shown", "described"}
    /\ pc' = "idle"
    /\ text' = <<>>
    /\ score' = NoScore
    /\ ret' = NoRet
    /\ UNCHANGED <<batchVars, appVars>>

DescribeNext == ShowResult \/ DescribePolarity \/ DescribeAgain

DescribeSpec == ScoreInit /\ [][DescribeNext]_vars

(***************************************************************************)
(* Properties of the descriptions (DescribeSpec).                          *)
(***************************************************************************)
Described == ret.kind = "described"
Shown == ret.kind = "shown"

\* the last token of a description
Suffix(d) == d[Len(d)]

\* C11: by absolute value of the polarity the description starts with "Muy"
\* from 0.7, "Moderadamente" from 0.3, "Ligeramente" from 0.05 and is the
\* bare word "Neutral" below 0.05; a description that is not "Neutral" ends
\* in "positivo" for a polarity above 0 and in "negativo" for one below 0.
C11_DescriptionThresholds ==
    Described =>
        LET p == ret.polarity
            d == ret.description
        IN  /\ Abs(p) >= U(VeryPolar) => Len(d) = 3 /\ d[1] = "Muy"
            /\ (Abs(p) >= U(ModeratelyPolar) /\ Abs(p) < U(VeryPolar)) =>
                  Len(d) = 3 /\ d[1] = "Moderadamente"
            /\ (Abs(p) >= U(SlightlyPolar) /\ Abs(p) < U(ModeratelyPolar)) =>
                  Len(d) = 3 /\ d[1] = "Ligeramente"
            /\ Abs(p) < U(SlightlyPolar) => d = <<"Neutral">>
            /\ d # <<"Neutral">> =>
                  /\ d[2] = WS
                  /\ p > 0 => Suffix(d) = "positivo"
                  /\ p < 0 => Suffix(d) = "negativo"

\* a polarity of exactly -0.05 was described as slightly negative
C11_Witness ==
    /\ Described
    /\ ret.polarity = -U(SlightlyPolar)
    /\ ret.description = <<"Ligeramente", WS, "negativo">>

\* C16: the label of a result and the description of its polarity agree:
\* "Neutral" exactly for NEUTRAL, ending in "positivo" exactly for POSITIVO,
\* ending in "negativo" exactly for NEGATIVO.  (The code breaks this.)
C16_LabelAndDescriptionAgree ==
    Shown =>
        LET d == ret.formatted.polarity_description
            label == ret.formatted.sentiment
        IN  /\ d = <<"Neutral">> <=> label = "NEUTRAL"
            /\ Suffix(d) = "positivo" <=> label = "POSITIVO"
            /\ Suffix(d) = "negativo" <=> label = "NEGATIVO"

====
